---- MODULE Spec2Model ----
(***************************************************************************)
(* Products service: the Lambda handler that routes an API Gateway event   *)
(* to one of five operations on a DynamoDB table of products, and shapes   *)
(* the response.  Modelled from the instrumented handler (logger, metrics, *)
(* tracer); the plain-console variant in src/products/app.ts has the same  *)
(* control flow.                                                           *)
(*                                                                         *)
(* JavaScript values: a value that may be undefined (or null) is a set of  *)
(* at most one element, {} standing for undefined/null.  A JavaScript      *)
(* object with optional fields is a record of such sets.  A template       *)
(* string is the sequence of its pieces.                                   *)
(***************************************************************************)
EXTENDS Integers, Sequences, FiniteSets, TLC

VARIABLES
    table,        \* the DynamoDB table: a set of items, at most one per PK
    tableBefore,  \* the table as the last invocation found it
    lastEvent,    \* the event of the last invocation, {} before the first
    lastEnv,      \* what the collaborators did during the last invocation
    lastResult,   \* what the last invocation produced: a response or a throw
    lastCalls,    \* the table calls the last invocation issued, in order
    lastLog,      \* the routing messages the last invocation logged, in order
    follows,      \* the method of the invocation just before the last, when it
                  \* wrote or deleted the id the last one is about; else "none"
    invocations,  \* the invocations counted so far (counted under SpecObs only)
    running       \* the concurrent invocations (under SpecRace only): where each
                  \* one is, what its lookup found, what it has answered

vars == <<table, tableBefore, lastEvent, lastEnv, lastResult, lastCalls, lastLog,
          follows, invocations, running>>

----------------------------------------------------------------------------
(* Bounds of the model.                                                    *)

MaxPrice == 1
MaxObsFailures == 1
MaxObsInvocations == 2
MaxConcurrent == 3

(* Program constants.                                                      *)

ScanLimit == 20

----------------------------------------------------------------------------
(* Input domains.                                                          *)

ForceError == "ForceError"
\* Ids a client may name: a generated one it has been told, and the sentinel.
Uuids == {"u1"}
Ids == Uuids \cup {ForceError}
Names == {"a"}
Prices == 1..MaxPrice

Opt(S) == {{}} \cup {{s} : s \in S}

Products == [id : Opt(Ids), name : Opt(Names), price : Opt(Prices)]
Items == [PK : {{i} : i \in Ids}, name : Opt(Names), price : Opt(Prices)]

EmptyObject == [id |-> {}, name |-> {}, price |-> {}]

\* Request body texts: the empty string, text that is not JSON, the JSON
\* text null, and JSON objects.
BodyTexts ==
    {[kind |-> "empty"], [kind |-> "malformed"], [kind |-> "json", value |-> {}]}
    \cup {[kind |-> "json", value |-> {p}] : p \in Products}

Bodies == Opt(BodyTexts)
PathParameters == Opt([id : Opt(Ids)])
Methods == {"PUT", "POST", "GET", "DELETE", "PATCH"}

TableOps == {"get", "put", "delete", "scan"}
ObsSites == {"handlerEntry", "processEntry", "metric", "resultLog",
             "errorLog", "fallbackLog", "addHeaders"}

----------------------------------------------------------------------------
(* JavaScript and JSON helpers.                                            *)

Min(a, b) == IF a < b THEN a ELSE b

\* The element of a defined optional value.
The(opt) == CHOOSE v \in opt : TRUE

\* `${id}` in a template string: undefined renders as the text "undefined".
Str(opt) == IF opt = {} THEN "undefined" ELSE The(opt)

\* input.pathParameters?.id
OptionalId(pathParameters) ==
    IF pathParameters = {} THEN {} ELSE The(pathParameters).id

\* input.body || '' : a null body and an empty body both give the empty text.
BodyOrEmptyText(body) ==
    IF body = {} THEN [kind |-> "empty"] ELSE The(body)

\* A lenient parse: text that does not parse decodes to null instead of throwing.
JSONparseLenient(text) ==
    IF text.kind = "json"
    THEN [threw |-> FALSE, message |-> "", value |-> text.value]
    ELSE [threw |-> FALSE, message |-> "", value |-> {}]

\* JSON.parse(text): throws a SyntaxError on the empty text and on text that
\* is not JSON; otherwise the decoded value ({} for the JSON text null).
JSONparse(text) ==
    CASE text.kind = "empty" ->
            [threw |-> TRUE, message |-> "Unexpected end of JSON input", value |-> {}]
      [] text.kind = "malformed" ->
            [threw |-> TRUE, message |-> "Unexpected token", value |-> {}]
      [] OTHER ->
            [threw |-> FALSE, message |-> "", value |-> text.value]

\* JSON.parse(...) || {} : a decoded null is replaced by the empty object.
OrEmptyObject(value) == IF value = {} THEN EmptyObject ELSE The(value)

\* JSON.stringify(v)
JSONstringify(v) == [kind |-> "json", value |-> {v}]

----------------------------------------------------------------------------
(* The DocumentClient on the products table.  A call in `faults` rejects;  *)
(* so does a call whose key attribute is undefined.                        *)

StoreFaultMessage == "store fault"
MissingKeyMessage == "The provided key element does not match the schema"
LogFaultMessage == "observability fault"

ItemOf(tbl, key) == {i \in tbl : i.PK = key}

\* A put that keeps the attributes of the old item which the new one lacks.
dbPutMerging(tbl, item, faults) ==
    IF "put" \in faults
    THEN [threw |-> TRUE, message |-> StoreFaultMessage, table |-> tbl]
    ELSE IF item.PK = {}
    THEN [threw |-> TRUE, message |-> MissingKeyMessage, table |-> tbl]
    ELSE [threw |-> FALSE, message |-> "",
          table |-> {i \in tbl : i.PK # item.PK}
                    \cup {[PK |-> item.PK,
                           name |-> IF item.name = {}
                                    THEN UNION {i.name : i \in ItemOf(tbl, item.PK)}
                                    ELSE item.name,
                           price |-> IF item.price = {}
                                     THEN UNION {i.price : i \in ItemOf(tbl, item.PK)}
                                     ELSE item.price]}]

dbPut(tbl, item, faults) ==
    IF "put" \in faults
    THEN [threw |-> TRUE, message |-> StoreFaultMessage, table |-> tbl]
    ELSE IF item.PK = {}
    THEN [threw |-> TRUE, message |-> MissingKeyMessage, table |-> tbl]
    ELSE [threw |-> FALSE, message |-> "",
          table |-> {i \in tbl : i.PK # item.PK} \cup {item}]

\* A lookup that ignores the key and returns some item of the table.
dbGetAnyItem(tbl, key, faults) ==
    IF "get" \in faults
    THEN [threw |-> TRUE, message |-> StoreFaultMessage, Item |-> {}]
    ELSE IF key = {}
    THEN [threw |-> TRUE, message |-> MissingKeyMessage, Item |-> {}]
    ELSE [threw |-> FALSE, message |-> "",
          Item |-> IF tbl = {} THEN {} ELSE {CHOOSE i \in tbl : TRUE}]

dbGet(tbl, key, faults) ==
    IF "get" \in faults
    THEN [threw |-> TRUE, message |-> StoreFaultMessage, Item |-> {}]
    ELSE IF key = {}
    THEN [threw |-> TRUE, message |-> MissingKeyMessage, Item |-> {}]
    ELSE [threw |-> FALSE, message |-> "", Item |-> ItemOf(tbl, key)]

\* A delete that empties the table.
dbDeleteEverything(tbl, key, faults) ==
    IF "delete" \in faults
    THEN [threw |-> TRUE, message |-> StoreFaultMessage, table |-> tbl]
    ELSE IF key = {}
    THEN [threw |-> TRUE, message |-> MissingKeyMessage, table |-> tbl]
    ELSE [threw |-> FALSE, message |-> "", table |-> {}]

dbDelete(tbl, key, faults) ==
    IF "delete" \in faults
    THEN [threw |-> TRUE, message |-> StoreFaultMessage, table |-> tbl]
    ELSE IF key = {}
    THEN [threw |-> TRUE, message |-> MissingKeyMessage, table |-> tbl]
    ELSE [threw |-> FALSE, message |-> "", table |-> {i \in tbl : i.PK # key}]

\* The pages a scan with Limit can return: any `limit` items of the table,
\* or all of them when there are fewer.
ScanPages(tbl, limit) ==
    {S \in SUBSET tbl : Cardinality(S) = Min(limit, Cardinality(tbl))}

dbScan(page, faults) ==
    IF "scan" \in faults
    THEN [threw |-> TRUE, message |-> StoreFaultMessage, Items |-> {}]
    ELSE [threw |-> FALSE, message |-> "", Items |-> page]

Call(op, key) == [op |-> op, key |-> key]

----------------------------------------------------------------------------
(* What a function call produces: a returned response or a thrown error,   *)
(* with the table, the table calls issued and the routing messages logged  *)
(* so far.                                                                 *)

Response(statusCode, body) ==
    [statusCode |-> statusCode, body |-> body, headers |-> {}]

Return(response, tbl, calls) ==
    [threw |-> FALSE, response |-> {response}, table |-> tbl, calls |-> calls,
     log |-> <<>>]

Throw(tbl, calls) ==
    [threw |-> TRUE, response |-> {}, table |-> tbl, calls |-> calls, log |-> <<>>]

\* logger.info(message) at the entry of an operation, before what it goes on to do.
Logged(message, result) == [result EXCEPT !.log = <<message>> \o @]

\* A catch block: logger.error(errorMessage), then the 500 response.  The
\* log call is inside the catch block, so its failure leaves the function.
Catch(operation, message, tbl, calls, failing) ==
    IF "errorLog" \in failing
    THEN Throw(tbl, calls)
    ELSE Return(Response(500, JSONstringify(
                    [error |-> <<"Internal Server Error for ", operation,
                                 " :: ", message>>])),
                tbl, calls)

----------------------------------------------------------------------------
(* The five operations.  `env` is what the collaborators do during the     *)
(* invocation: env.faults the table calls that reject, env.failing the     *)
(* logger and metrics calls that throw, env.uuid the value of uuidv4(),    *)
(* env.page the page a scan returns.                                       *)

MismatchBody ==
    JSONstringify([error |-> <<"Product ID in the body does not match path parameter">>])

\* An item keyed by the id of the body whenever the body has one.
NewItemKeyedByBody(pk, product) ==
    [PK |-> IF product.id # {} THEN product.id ELSE pk,
     name |-> product.name, price |-> product.price]

\* Item: { PK, name, price }; the DocumentClient leaves undefined attributes out.
NewItem(pk, product) == [PK |-> pk, name |-> product.name, price |-> product.price]

processPutEvent(tbl, input, env) ==
    IF "processEntry" \in env.failing THEN Throw(tbl, <<>>)
    ELSE
    Logged("Processing Put Event",
    LET id == OptionalId(input.pathParameters)
        parsed == JSONparse(BodyOrEmptyText(input.body))
    IN  IF parsed.threw THEN Catch("Put", parsed.message, tbl, <<>>, env.failing)
        ELSE
        LET product == OrEmptyObject(parsed.value)
        IN  IF product.id # id THEN Return(Response(400, MismatchBody), tbl, <<>>)
            ELSE
            LET put == dbPut(tbl, NewItem(product.id, product), env.faults)
                calls == <<Call("put", product.id)>>
                successMessage == <<"Product with id = ", Str(id), " edited(created)">>
            IN  IF put.threw THEN Catch("Put", put.message, tbl, calls, env.failing)
                ELSE IF "resultLog" \in env.failing
                THEN Catch("Put", LogFaultMessage, put.table, calls, env.failing)
                ELSE Return(Response(201, JSONstringify([message |-> successMessage])),
                            put.table, calls))

processPostEvent(tbl, input, env) ==
    IF "processEntry" \in env.failing THEN Throw(tbl, <<>>)
    ELSE
    Logged("Processing Post Event",
    LET parsed == JSONparse(BodyOrEmptyText(input.body))
    IN  IF parsed.threw THEN Catch("Post", parsed.message, tbl, <<>>, env.failing)
        ELSE
        LET product == OrEmptyObject(parsed.value)
            productId == {env.uuid}
            put == dbPut(tbl, NewItem(productId, product), env.faults)
            calls == <<Call("put", productId)>>
            successMessage == <<"Product with id = ", Str(productId), " created">>
        IN  IF put.threw THEN Catch("Post", put.message, tbl, calls, env.failing)
            ELSE IF "resultLog" \in env.failing
            THEN Catch("Post", LogFaultMessage, put.table, calls, env.failing)
            ELSE Return(Response(201, JSONstringify([message |-> successMessage])),
                        put.table, calls))

processGetAllEvent(tbl, env) ==
    IF "processEntry" \in env.failing THEN Throw(tbl, <<>>)
    ELSE
    Logged("Processing Get All Event",
    LET products == dbScan(env.page, env.faults)
        calls == <<Call("scan", {})>>
    IN  IF products.threw THEN Catch("GetAll", products.message, tbl, calls, env.failing)
        ELSE IF "metric" \in env.failing \/ "resultLog" \in env.failing
        THEN Catch("GetAll", LogFaultMessage, tbl, calls, env.failing)
        ELSE Return(Response(200, JSONstringify([array |-> products.Items])), tbl, calls))

\* No sentinel: every id is looked up.
IsNeverForceError(id) == FALSE

\* if (id === 'ForceError')
IsForceError(id) == id = {ForceError}

processGetByIdEvent(tbl, input, env) ==
    IF "processEntry" \in env.failing THEN Throw(tbl, <<>>)
    ELSE
    Logged("Processing Get By Id Event",
    LET id == OptionalId(input.pathParameters)
    IN  IF IsForceError(id) THEN Catch("GetById", "BOOM", tbl, <<>>, env.failing)
        ELSE
        LET product == dbGet(tbl, id, env.faults)
            calls == <<Call("get", id)>>
            notFoundMessage == <<"Product with id = ", Str(id), " NOT found">>
        IN  IF product.threw THEN Catch("GetById", product.message, tbl, calls, env.failing)
            ELSE IF "resultLog" \in env.failing
            THEN Catch("GetById", LogFaultMessage, tbl, calls, env.failing)
            ELSE IF product.Item # {}
            THEN Return(Response(200, JSONstringify(The(product.Item))), tbl, calls)
            ELSE Return(Response(404, JSONstringify([error |-> notFoundMessage])),
                        tbl, calls))

\* No existence check: the delete is issued whatever the lookup found.
LookupFoundAlways(product) == TRUE

\* if (product?.Item), on the result of the lookup that opens a delete
LookupFound(product) == product.Item # {}

processDeleteEvent(tbl, input, env) ==
    IF "processEntry" \in env.failing THEN Throw(tbl, <<>>)
    ELSE
    Logged("Processing Delete Event",
    LET id == OptionalId(input.pathParameters)
        product == dbGet(tbl, id, env.faults)
        getCalls == <<Call("get", id)>>
        message == <<"Product with id = ", Str(id), " was deleted">>
    IN  IF product.threw THEN Catch("Delete", product.message, tbl, getCalls, env.failing)
        ELSE IF LookupFound(product)
        THEN LET deleted == dbDelete(tbl, id, env.faults)
                 calls == Append(getCalls, Call("delete", id))
             IN  IF deleted.threw
                 THEN Catch("Delete", deleted.message, tbl, calls, env.failing)
                 ELSE IF "resultLog" \in env.failing
                 THEN Catch("Delete", LogFaultMessage, deleted.table, calls, env.failing)
                 ELSE Return(Response(200, JSONstringify([message |-> message])),
                             deleted.table, calls)
        ELSE IF "resultLog" \in env.failing
        THEN Catch("Delete", LogFaultMessage, tbl, getCalls, env.failing)
        ELSE Return(Response(404, JSONstringify([error |-> message])), tbl, getCalls))

----------------------------------------------------------------------------
(* Response headers and the handler.                                       *)

FixedHeaders == {<<"Content-Type", "application/json">>,
                 <<"X-Custom-Header", "application/json">>}

\* Only the content type is set, on top of the headers already there.
SetContentTypeOnly(response) ==
    [response EXCEPT !.headers = @ \cup {<<"Content-Type", "application/json">>}]

\* response.headers = { ... }: whatever headers the response had are replaced.
SetHeaders(response) == [response EXCEPT !.headers = FixedHeaders]

\* addResponseHeaders(await process...Event(...)): a throw of the operation
\* passes through; logger.info('Adding Response Headers') may throw itself.
addResponseHeaders(result, failing) ==
    IF result.threw THEN result
    ELSE IF "addHeaders" \in failing
    THEN [Throw(result.table, result.calls) EXCEPT !.log = result.log]
    ELSE [result EXCEPT !.response = {SetHeaders(The(result.response))}]

FallbackResponse == Response(500, JSONstringify([message |-> <<"some error happened">>]))

\* Routing on the id rather than on the map of path parameters.
RoutesToGetAllWithoutId(event) == OptionalId(event.pathParameters) = {}

\* if (!event.pathParameters)
RoutesToGetAll(event) == event.pathParameters = {}

handler(tbl, event, env) ==
    IF "handlerEntry" \in env.failing THEN Throw(tbl, <<>>)
    ELSE IF event.httpMethod = "PUT"
    THEN addResponseHeaders(processPutEvent(tbl, event, env), env.failing)
    ELSE IF event.httpMethod = "POST"
    THEN addResponseHeaders(processPostEvent(tbl, event, env), env.failing)
    ELSE IF event.httpMethod = "GET"
    THEN IF RoutesToGetAll(event)
         THEN addResponseHeaders(processGetAllEvent(tbl, env), env.failing)
         ELSE addResponseHeaders(processGetByIdEvent(tbl, event, env), env.failing)
    ELSE IF event.httpMethod = "DELETE"
    THEN addResponseHeaders(processDeleteEvent(tbl, event, env), env.failing)
    ELSE IF "fallbackLog" \in env.failing THEN Throw(tbl, <<>>)
    ELSE addResponseHeaders(
             Logged("Error happened while processing the request",
                    Return(FallbackResponse, tbl, <<>>)),
             env.failing)

----------------------------------------------------------------------------
(* The state machine: one invocation of the handler per step.              *)

Event(httpMethod, pathParameters, body) ==
    [httpMethod |-> httpMethod, pathParameters |-> pathParameters, body |-> body]

Env(faults, failing, uuid, page) ==
    [faults |-> faults, failing |-> failing, uuid |-> uuid, page |-> page]

\* At most one table call rejects per invocation, among those the method issues.
FaultChoices(ops) == {{}} \cup {{op} : op \in ops}

NoObsFailure == {{}}
ObsFailures == {F \in SUBSET ObsSites : Cardinality(F) <= MaxObsFailures}

\* The id an invocation is about: the generated one for POST, the path's otherwise.
SubjectId(event, env) ==
    IF event.httpMethod = "POST" THEN {env.uuid} ELSE OptionalId(event.pathParameters)

StatusOf(result) == IF result.response = {} THEN 0 ELSE The(result.response).statusCode

\* The last invocation, if it answered 201 (PUT, POST) or 200 to a DELETE.
LastWrite ==
    IF lastEvent # {} /\ The(lastEvent).httpMethod \in {"PUT", "POST", "DELETE"}
                     /\ StatusOf(lastResult) \in {200, 201}
    THEN {[httpMethod |-> The(lastEvent).httpMethod,
           id |-> SubjectId(The(lastEvent), lastEnv)]}
    ELSE {}

Invoke(event, env) ==
    \E result \in {handler(table, event, env)} :
        /\ table' = result.table
        /\ tableBefore' = table
        /\ lastEvent' = {event}
        /\ lastEnv' = env
        /\ lastResult' = [threw |-> result.threw, response |-> result.response]
        /\ lastCalls' = result.calls
        /\ lastLog' = result.log
        /\ follows' = IF LastWrite # {} /\ The(LastWrite).id = SubjectId(event, env)
                      THEN The(LastWrite).httpMethod
                      ELSE "none"
        /\ UNCHANGED running

\* An invocation that has not started.
NotStarted ==
    [pc |-> "idle", event |-> {}, env |-> Env({}, {}, CHOOSE u \in Uuids : TRUE, {}),
     found |-> {}, removed |-> {}, result |-> {}]

Init ==
    /\ running = [p \in 1..MaxConcurrent |-> NotStarted]
    /\ table = {}
    /\ tableBefore = {}
    /\ lastEvent = {}
    /\ lastEnv = Env({}, {}, CHOOSE u \in Uuids : TRUE, {})
    /\ lastResult = [threw |-> FALSE, response |-> {}]
    /\ lastCalls = <<>>
    /\ lastLog = <<>>
    /\ follows = "none"
    /\ invocations = 0

Put(failings) ==
    \E pathParameters \in PathParameters, body \in Bodies,
       faults \in FaultChoices({"put"}), failing \in failings,
       uuid \in Uuids, page \in ScanPages(table, ScanLimit) :
        Invoke(Event("PUT", pathParameters, body), Env(faults, failing, uuid, page))

Post(failings) ==
    \E body \in Bodies,
       faults \in FaultChoices({"put"}), failing \in failings,
       uuid \in Uuids, page \in ScanPages(table, ScanLimit) :
        Invoke(Event("POST", {}, body), Env(faults, failing, uuid, page))

Get(failings) ==
    \E pathParameters \in PathParameters,
       faults \in FaultChoices({"get", "scan"}), failing \in failings,
       uuid \in Uuids, page \in ScanPages(table, ScanLimit) :
        Invoke(Event("GET", pathParameters, {}), Env(faults, failing, uuid, page))

Delete(failings) ==
    \E pathParameters \in PathParameters,
       faults \in FaultChoices({"get", "delete"}), failing \in failings,
       uuid \in Uuids, page \in ScanPages(table, ScanLimit) :
        Invoke(Event("DELETE", pathParameters, {}), Env(faults, failing, uuid, page))

Other(failings) ==
    \E pathParameters \in PathParameters, failing \in failings,
       uuid \in Uuids, page \in ScanPages(table, ScanLimit) :
        Invoke(Event("PATCH", pathParameters, {}), Env({}, failing, uuid, page))

\* Every logger and metrics call returns normally.
Next ==
    \/ Put(NoObsFailure) /\ UNCHANGED invocations
    \/ Post(NoObsFailure) /\ UNCHANGED invocations
    \/ Get(NoObsFailure) /\ UNCHANGED invocations
    \/ Delete(NoObsFailure) /\ UNCHANGED invocations
    \/ Other(NoObsFailure) /\ UNCHANGED invocations

Spec == Init /\ [][Next]_vars

\* Logger and metrics calls may throw.
Counted ==
    /\ invocations < MaxObsInvocations
    /\ invocations' = invocations + 1

NextObs ==
    \/ Counted /\ Put(ObsFailures)
    \/ Counted /\ Post(ObsFailures)
    \/ Counted /\ Get(ObsFailures)
    \/ Counted /\ Delete(ObsFailures)
    \/ Counted /\ Other(ObsFailures)

SpecObs == Init /\ [][NextObs]_vars

----------------------------------------------------------------------------
(* Concurrent invocations.  An invocation suspends at each await of a      *)
(* table call, so a DELETE is two steps, its lookup and its delete call,   *)
(* and invocations of other Lambda instances may act on the table between  *)
(* them.  A PUT has one table call and is one step.  No logger call       *)
(* throws here.                                                            *)

\* processDeleteEvent up to and including `await dbClient.get(...)`, and the
\* branches that end without a delete call.  result is {} while the
\* invocation goes on to the delete call.
deleteLookup(tbl, input, env) ==
    IF "processEntry" \in env.failing
    THEN [found |-> {}, result |-> {Throw(tbl, <<>>)}]
    ELSE
    LET id == OptionalId(input.pathParameters)
        product == dbGet(tbl, id, env.faults)
        getCalls == <<Call("get", id)>>
        message == <<"Product with id = ", Str(id), " was deleted">>
        ends(outcome) ==
            [found |-> {}, result |-> {Logged("Processing Delete Event", outcome)}]
    IN  IF product.threw
        THEN ends(Catch("Delete", product.message, tbl, getCalls, env.failing))
        ELSE IF LookupFound(product)
        THEN [found |-> product.Item, result |-> {}]
        ELSE IF "resultLog" \in env.failing
        THEN ends(Catch("Delete", LogFaultMessage, tbl, getCalls, env.failing))
        ELSE ends(Return(Response(404, JSONstringify([error |-> message])),
                         tbl, getCalls))

\* A delete call that is refused when the record the lookup found is gone.
deleteIssueRechecking(tbl, input, env) ==
    LET id == OptionalId(input.pathParameters)
        calls == <<Call("get", id), Call("delete", id)>>
        message == <<"Product with id = ", Str(id), " was deleted">>
    IN  Logged("Processing Delete Event",
            IF ItemOf(tbl, id) = {}
            THEN Return(Response(404, JSONstringify([error |-> message])), tbl, calls)
            ELSE Return(Response(200, JSONstringify([message |-> message])),
                        {i \in tbl : i.PK # id}, calls))

\* processDeleteEvent from `await dbClient.delete(...)` on, in the branch
\* where the lookup found a record.
deleteIssue(tbl, input, env) ==
    LET id == OptionalId(input.pathParameters)
        deleted == dbDelete(tbl, id, env.faults)
        calls == <<Call("get", id), Call("delete", id)>>
        message == <<"Product with id = ", Str(id), " was deleted">>
    IN  Logged("Processing Delete Event",
            IF deleted.threw
            THEN Catch("Delete", deleted.message, tbl, calls, env.failing)
            ELSE IF "resultLog" \in env.failing
            THEN Catch("Delete", LogFaultMessage, deleted.table, calls, env.failing)
            ELSE Return(Response(200, JSONstringify([message |-> message])),
                        deleted.table, calls))

\* The records of the concurrent invocations: a key and, or not, a name.
RaceItems == {i \in Items : i.price = {}}

\* Tables the invocations may find: at most one item per key.
Tables == {T \in SUBSET RaceItems : \A i, j \in T : i.PK = j.PK => i = j}

RaceEnv(faults) == Env(faults, {}, CHOOSE u \in Uuids : TRUE, {})

\* Invocations start in the order of their numbers.
MayStart(p) ==
    /\ running[p].pc = "idle"
    /\ \A q \in 1..(p - 1) : running[q].pc # "idle"

Finished(event, env, found, removed, result) ==
    [pc |-> "done", event |-> {event}, env |-> env, found |-> found,
     removed |-> removed, result |-> {addResponseHeaders(result, env.failing)}]

\* DELETE /products/{id}: the handler up to the lookup.
DeleteLookup(p) ==
    /\ MayStart(p)
    /\ \E id \in Ids, faults \in FaultChoices({"get", "delete"}) :
        \E event \in {Event("DELETE", {[id |-> {id}]}, {})}, env \in {RaceEnv(faults)} :
        \E looked \in {deleteLookup(table, event, env)} :
            running' = [running EXCEPT ![p] =
                IF looked.result = {}
                THEN [pc |-> "looked", event |-> {event}, env |-> env,
                      found |-> looked.found, removed |-> {}, result |-> {}]
                ELSE Finished(event, env, {}, {}, The(looked.result))]
    /\ UNCHANGED <<table, tableBefore, lastEvent, lastEnv, lastResult, lastCalls,
                   lastLog, follows, invocations>>

\* The same invocation resumed: the delete call, and the response.
DeleteIssue(p) ==
    /\ running[p].pc = "looked"
    /\ \E event \in running[p].event :
        \E result \in {deleteIssue(table, event, running[p].env)} :
            /\ table' = result.table
            /\ running' = [running EXCEPT ![p] =
                    Finished(event, running[p].env, running[p].found,
                             table \ result.table, result)]
    /\ UNCHANGED <<tableBefore, lastEvent, lastEnv, lastResult, lastCalls,
                   lastLog, follows, invocations>>

\* PUT /products/{id} with a body of that id: one table call, one step.
RacePut(p) ==
    /\ MayStart(p)
    /\ \E item \in RaceItems :
        \E event \in {Event("PUT", {[id |-> item.PK]},
                            {[kind |-> "json",
                              value |-> {[id |-> item.PK, name |-> item.name,
                                          price |-> item.price]}]})},
           env \in {RaceEnv({})} :
        \E result \in {handler(table, event, env)} :
            /\ table' = result.table
            /\ running' = [running EXCEPT ![p] =
                    [pc |-> "done", event |-> {event}, env |-> env, found |-> {},
                     removed |-> {}, result |-> {result}]]
    /\ UNCHANGED <<tableBefore, lastEvent, lastEnv, lastResult, lastCalls,
                   lastLog, follows, invocations>>

InitRace ==
    /\ running = [p \in 1..MaxConcurrent |-> NotStarted]
    /\ table \in Tables
    /\ tableBefore = {}
    /\ lastEvent = {}
    /\ lastEnv = Env({}, {}, CHOOSE u \in Uuids : TRUE, {})
    /\ lastResult = [threw |-> FALSE, response |-> {}]
    /\ lastCalls = <<>>
    /\ lastLog = <<>>
    /\ follows = "none"
    /\ invocations = 0

NextRace ==
    \E p \in 1..MaxConcurrent :
        \/ DeleteLookup(p)
        \/ DeleteIssue(p)
        \/ RacePut(p)

SpecRace == InitRace /\ [][NextRace]_vars

----------------------------------------------------------------------------
(* Reading a state: the last invocation and what it produced.              *)

LastIs(method) == lastEvent # {} /\ The(lastEvent).httpMethod = method
PathId == OptionalId(The(lastEvent).pathParameters)
Responded == lastResult.response # {}
Status == StatusOf(lastResult)
BodyText == The(lastResult.response).body
Headers == The(lastResult.response).headers

\* Whether the request body is JSON text, and the id it then holds.  An
\* absent or empty body and text that is not JSON hold no id.
IsJsonText(body) == body # {} /\ The(body).kind = "json"
BodyProduct(body) ==
    IF IsJsonText(body) /\ The(body).value # {} THEN The(The(body).value) ELSE EmptyObject
BodyId(body) == BodyProduct(body).id

ErrorBody(operation, message) ==
    [kind |-> "json",
     value |-> {[error |-> <<"Internal Server Error for ", operation, " :: ", message>>]}]

----------------------------------------------------------------------------
(* C1.  A PUT whose body id equals the path id and whose write the table   *)
(* accepts answers 201; a GetById on that id issued next answers 200 with  *)
(* exactly the name and price of that PUT; the PUT replaces whatever       *)
(* record the id had.                                                      *)

PutAccepted(event, env) ==
    /\ event.httpMethod = "PUT"
    /\ IsJsonText(event.body)
    /\ BodyId(event.body) = OptionalId(event.pathParameters)
    /\ OptionalId(event.pathParameters) # {}
    /\ "put" \notin env.faults

WrittenItem(event) ==
    [PK |-> OptionalId(event.pathParameters),
     name |-> BodyProduct(event.body).name,
     price |-> BodyProduct(event.body).price]

GetByIdNext(id) ==
    /\ LastIs("PUT") \/ LastIs("POST") \/ LastIs("DELETE")
    /\ lastEvent' # {}
    /\ The(lastEvent').httpMethod = "GET"
    /\ The(lastEvent').pathParameters = {[id |-> id]}

PutAnswers201AndReplaces ==
    \A e \in lastEvent' :
        PutAccepted(e, lastEnv') =>
            /\ StatusOf(lastResult') = 201
            /\ ItemOf(table', WrittenItem(e).PK) = {WrittenItem(e)}
            /\ \A i \in table : i.PK # WrittenItem(e).PK => i \in table'

\* C1 as claimed: for every id, whatever the lookup of the GetById does.
C1_AsClaimed ==
    [][/\ PutAnswers201AndReplaces
       /\ \A e \in lastEvent :
            (PutAccepted(e, lastEnv) /\ GetByIdNext(WrittenItem(e).PK)) =>
                /\ StatusOf(lastResult') = 200
                /\ The(lastResult'.response).body
                     = [kind |-> "json", value |-> {WrittenItem(e)}]]_vars

\* C1 as amended: the id is not the sentinel "ForceError" and the lookup of
\* the GetById does not fault; for the sentinel the GetById answers 500.
C1_PutThenGetById ==
    [][/\ PutAnswers201AndReplaces
       /\ \A e \in lastEvent :
            (PutAccepted(e, lastEnv) /\ GetByIdNext(WrittenItem(e).PK)) =>
                IF WrittenItem(e).PK = {ForceError}
                THEN StatusOf(lastResult') = 500
                ELSE "get" \notin lastEnv'.faults =>
                        /\ StatusOf(lastResult') = 200
                        /\ The(lastResult'.response).body
                             = [kind |-> "json", value |-> {WrittenItem(e)}]]_vars

\* A GetById right after a PUT of the same id, answering 200 with a record
\* that has a price and no name.
C1_Witness ==
    /\ LastIs("GET")
    /\ follows = "PUT"
    /\ Status = 200
    /\ \E i \in tableBefore :
        /\ i.PK = PathId
        /\ i.name = {}
        /\ i.price # {}
        /\ BodyText = [kind |-> "json", value |-> {i}]

----------------------------------------------------------------------------
(* C2.  A PUT whose body id differs from the path id answers 400 with the  *)
(* mismatch body and issues no table call, so the table is unchanged.      *)

NoTableCall == lastCalls = <<>> /\ table = tableBefore

\* C2 as claimed: for every body, an absent or empty one included.
C2_AsClaimed ==
    (LastIs("PUT") /\ BodyId(The(lastEvent).body) # PathId) =>
        /\ Status = 400
        /\ BodyText = MismatchBody
        /\ NoTableCall

\* C2 as amended: the body must be JSON text (the text null and an object
\* without id included); an absent or empty body, like any text that is not
\* JSON, answers 500 with the Put error body, also without a table call.
C2_MismatchAnswers400 ==
    LastIs("PUT") =>
        /\ (IsJsonText(The(lastEvent).body) /\ BodyId(The(lastEvent).body) # PathId) =>
                /\ Status = 400
                /\ BodyText = [kind |-> "json", value |->
                     {[error |-> <<"Product ID in the body does not match path parameter">>]}]
                /\ NoTableCall
        /\ ~IsJsonText(The(lastEvent).body) =>
                /\ Status = 500
                /\ \E m \in {"Unexpected end of JSON input", "Unexpected token"} :
                        BodyText = ErrorBody("Put", m)
                /\ NoTableCall

\* A PUT on a path id with the JSON text null as body, while the table
\* holds a record: 400, and the table as it was.
C2_Witness ==
    /\ LastIs("PUT")
    /\ The(lastEvent).body = {[kind |-> "json", value |-> {}]}
    /\ PathId # {}
    /\ Status = 400
    /\ tableBefore # {}
    /\ table = tableBefore

----------------------------------------------------------------------------
(* C3.  A POST answers 201 with a body naming a generated id, the record   *)
(* is keyed by that id and not by the id of the body, and a GetById on     *)
(* the generated id issued next answers 200.                               *)

PostAccepted(event, env) ==
    /\ event.httpMethod = "POST"
    /\ IsJsonText(event.body)
    /\ "put" \notin env.faults

CreatedBody(id) ==
    [kind |-> "json", value |-> {[message |-> <<"Product with id = ", id, " created">>]}]

CreatedItem(event, env) ==
    [PK |-> {env.uuid},
     name |-> BodyProduct(event.body).name,
     price |-> BodyProduct(event.body).price]

\* C3 as claimed: every POST answers 201, and the generated id differs
\* from the id of the body.
C3_AsClaimed ==
    [][/\ \A e \in lastEvent' :
            e.httpMethod = "POST" =>
                /\ StatusOf(lastResult') = 201
                /\ The(lastResult'.response).body = CreatedBody(lastEnv'.uuid)
                /\ BodyId(e.body) # {lastEnv'.uuid}
       /\ \A e \in lastEvent :
            (e.httpMethod = "POST" /\ GetByIdNext({lastEnv.uuid})) =>
                StatusOf(lastResult') = 200]_vars

\* C3 as amended: the POST has a body that is JSON text and its write is
\* accepted (otherwise it answers 500); the record is written under the
\* generated id whatever id the body holds, and under no other id; the
\* lookup of the GetById does not fault.
C3_PostThenGetById ==
    [][/\ \A e \in lastEvent' :
            /\ PostAccepted(e, lastEnv') =>
                /\ StatusOf(lastResult') = 201
                /\ The(lastResult'.response).body = CreatedBody(lastEnv'.uuid)
                /\ lastCalls' = <<[op |-> "put", key |-> {lastEnv'.uuid}]>>
                /\ ItemOf(table', {lastEnv'.uuid}) = {CreatedItem(e, lastEnv')}
                /\ \A i \in table \cup table' :
                        i.PK # {lastEnv'.uuid} => (i \in table /\ i \in table')
            /\ (e.httpMethod = "POST" /\ ~PostAccepted(e, lastEnv')) =>
                /\ StatusOf(lastResult') = 500
                /\ table' = table
       /\ \A e \in lastEvent :
            (PostAccepted(e, lastEnv) /\ GetByIdNext({lastEnv.uuid})
                /\ "get" \notin lastEnv'.faults) =>
                /\ StatusOf(lastResult') = 200
                /\ The(lastResult'.response).body
                     = [kind |-> "json", value |-> {CreatedItem(e, lastEnv)}]]_vars

\* A GetById, answering 200, right after a POST that generated its id.
C3_Witness ==
    /\ LastIs("GET")
    /\ follows = "POST"
    /\ PathId = {lastEnv.uuid}
    /\ Status = 200

----------------------------------------------------------------------------
(* C4.  A GetById on an id that has no record in the table answers 404     *)
(* with an error message that contains the id.                             *)

GetByIdOf(i) == LastIs("GET") /\ The(lastEvent).pathParameters = {[id |-> {i}]}

NotFoundBody(i) ==
    [kind |-> "json", value |-> {[error |-> <<"Product with id = ", i, " NOT found">>]}]

\* C4 as claimed: for every id value.
C4_AsClaimed ==
    \A i \in Ids :
        (GetByIdOf(i) /\ ItemOf(tableBefore, {i}) = {}) =>
            Status = 404 /\ BodyText = NotFoundBody(i)

\* C4 as amended: for every id but the sentinel "ForceError", which answers
\* 500, and when the lookup does not fault.
C4_AbsentAnswers404 ==
    \A i \in Ids :
        (GetByIdOf(i) /\ ItemOf(tableBefore, {i}) = {}) =>
            IF i = ForceError
            THEN Status = 500
            ELSE "get" \notin lastEnv.faults =>
                    Status = 404 /\ BodyText = NotFoundBody(i)

\* A GetById, answering 404, right after the delete of its id, with a record
\* of another id in the table.
C4_Witness ==
    /\ LastIs("GET")
    /\ follows = "DELETE"
    /\ Status = 404
    /\ table # {}

----------------------------------------------------------------------------
(* C5.  A GetById on the id "ForceError" answers 500 with the GetById      *)
(* error body whatever the table holds, and issues no table call.          *)

\* C5: on "ForceError", 500 with the BOOM error body, no table call, the
\* table as it was.
C5_ForceErrorAnswers500 ==
    GetByIdOf(ForceError) =>
        /\ Status = 500
        /\ BodyText = ErrorBody("GetById", "BOOM")
        /\ NoTableCall

\* A GetById on "ForceError" while the table holds a record under that key.
C5_Witness ==
    /\ GetByIdOf(ForceError)
    /\ ItemOf(tableBefore, {ForceError}) # {}
    /\ Status = 500

----------------------------------------------------------------------------
(* C6.  A DELETE of an id that has a record, with no table fault, answers  *)
(* 200 and leaves the records of all other ids as they were; a GetById on  *)
(* the id issued next answers 404.                                         *)

DeleteOfExisting(event, env, tbl) ==
    /\ event.httpMethod = "DELETE"
    /\ OptionalId(event.pathParameters) # {}
    /\ ItemOf(tbl, OptionalId(event.pathParameters)) # {}
    /\ env.faults = {}

DeleteAnswers200 ==
    \A e \in lastEvent' :
        DeleteOfExisting(e, lastEnv', table) =>
            /\ StatusOf(lastResult') = 200
            /\ table' = table \ ItemOf(table, OptionalId(e.pathParameters))

\* C6 as claimed: for every id.
C6_AsClaimed ==
    [][/\ DeleteAnswers200
       /\ \A e \in lastEvent :
            (DeleteOfExisting(e, lastEnv, tableBefore)
                /\ GetByIdNext(OptionalId(e.pathParameters))
                /\ lastEnv'.faults = {}) =>
                StatusOf(lastResult') = 404]_vars

\* C6 as amended: the GetById answers 404 for every id but the sentinel
\* "ForceError", for which it answers 500.
C6_DeleteThenGetById ==
    [][/\ DeleteAnswers200
       /\ \A e \in lastEvent :
            (DeleteOfExisting(e, lastEnv, tableBefore)
                /\ GetByIdNext(OptionalId(e.pathParameters))
                /\ lastEnv'.faults = {}) =>
                IF OptionalId(e.pathParameters) = {ForceError}
                THEN StatusOf(lastResult') = 500
                ELSE /\ StatusOf(lastResult') = 404
                     /\ The(lastResult'.response).body
                          = NotFoundBody(The(OptionalId(e.pathParameters)))]_vars

\* A GetById, answering 404, right after the DELETE of its id, which left
\* the record of another id in the table.
C6_Witness ==
    /\ LastIs("GET")
    /\ follows = "DELETE"
    /\ Status = 404
    /\ \E i \in tableBefore : i.PK # PathId

----------------------------------------------------------------------------
(* C7.  A DELETE issues the delete call only after a lookup that found a   *)
(* record; when the lookup finds none it answers 404, issues no delete     *)
(* call and leaves the table unchanged.                                    *)

IssuedDelete == \E k \in 1..Len(lastCalls) : lastCalls[k].op = "delete"

----------------------------------------------------------------------------
(* C8.  Every response carries exactly two headers, Content-Type:          *)
(* application/json and X-Custom-Header, on every route.                   *)

\* C8: every invocation responds, with exactly the two fixed headers.
C8_ExactlyTwoHeaders ==
    lastEvent # {} =>
        /\ Responded
        /\ Cardinality(Headers) = 2
        /\ <<"Content-Type", "application/json">> \in Headers
        /\ \E h \in Headers : h[1] = "X-Custom-Header"

\* The response of the fallback for a method the handler does not route.
C8_Witness ==
    /\ LastIs("PATCH")
    /\ Status = 500
    /\ Cardinality(Headers) = 2

----------------------------------------------------------------------------
(* C9.  Routing: PUT to Upsert, POST to Create, GET to ListFirstPage or    *)
(* GetById, DELETE to Delete, any other method to the 500 fallback, which  *)
(* issues no table call.                                                   *)

Routed(message) == lastLog = <<message>>

RoutingByMethod ==
    /\ LastIs("PUT") => Routed("Processing Put Event")
    /\ LastIs("POST") => Routed("Processing Post Event")
    /\ LastIs("DELETE") => Routed("Processing Delete Event")
    /\ (lastEvent # {} /\ The(lastEvent).httpMethod \notin {"PUT", "POST", "GET", "DELETE"}) =>
            /\ Routed("Error happened while processing the request")
            /\ Status = 500
            /\ BodyText = [kind |-> "json", value |-> {[message |-> <<"some error happened">>]}]
            /\ NoTableCall

\* C9 as claimed: a GET goes to GetById only if the path parameters
\* hold an id; a map of path parameters without id goes to ListFirstPage.
C9_AsClaimed ==
    /\ RoutingByMethod
    /\ (LastIs("GET") /\ PathId = {}) => Routed("Processing Get All Event")
    /\ (LastIs("GET") /\ PathId # {}) => Routed("Processing Get By Id Event")

\* C9 as amended: a GET goes to ListFirstPage only if the event has no map
\* of path parameters at all; with a map, holding an id or not, it goes to
\* GetById.
C9_Routing ==
    /\ RoutingByMethod
    /\ (LastIs("GET") /\ The(lastEvent).pathParameters = {}) =>
            Routed("Processing Get All Event")
    /\ (LastIs("GET") /\ The(lastEvent).pathParameters # {}) =>
            Routed("Processing Get By Id Event")

\* A GET whose map of path parameters holds no id, routed to GetById.
C9_Witness ==
    /\ LastIs("GET")
    /\ The(lastEvent).pathParameters = {[id |-> {}]}
    /\ Routed("Processing Get By Id Event")
    /\ lastCalls = <<[op |-> "get", key |-> {}]>>

----------------------------------------------------------------------------
(* C10.  A logger or metrics call that throws changes nothing: the handler *)
(* returns the status and body it returns when every such call succeeds,   *)
(* and nothing is thrown out of it.  Checked under SpecObs.                *)

\* C10 as claimed: status and body are those of the same invocation with no
\* failing logger or metrics call.
C10_AsClaimed ==
    lastEvent # {} =>
        /\ ~lastResult.threw
        /\ Responded
        /\ \E quiet \in {handler(tableBefore, The(lastEvent),
                                 [lastEnv EXCEPT !.failing = {}])} :
                /\ Status = StatusOf(quiet)
                /\ BodyText = The(quiet.response).body

----------------------------------------------------------------------------
(* C11.  Delete's lookup and its delete call are two steps with nothing    *)
(* held between them.  Checked under SpecRace.                             *)

RunIs(p, httpMethod) ==
    /\ running[p].pc = "done"
    /\ The(running[p].event).httpMethod = httpMethod

RunId(p) == OptionalId(The(running[p].event).pathParameters)
RunOutcome(p) == The(running[p].result)

\* A finished DELETE answers as the handler does when it runs alone on a
\* table that holds just what its lookup found, whatever the table held when
\* its delete call was issued.
AnswersFromItsLookup(p) ==
    \E alone \in {handler(running[p].found, The(running[p].event), running[p].env)} :
        /\ RunOutcome(p).threw = alone.threw
        /\ RunOutcome(p).response = alone.response
        /\ RunOutcome(p).calls = alone.calls

\* The step of invocation p leaves the records of every other id as they
\* were, and its delete call, unless it rejects, leaves no record of its id.
StepOf(p) ==
    running'[p] # running[p] =>
        LET id == OptionalId(The(running'[p].event).pathParameters)
        IN  /\ \A other \in Ids \ id : ItemOf(table', {other}) = ItemOf(table, {other})
            /\ (running[p].pc = "looked" /\ "delete" \notin running[p].env.faults) =>
                    ItemOf(table', id) = {}

\* C11: a DELETE whose lookup found a record and whose table calls do not
\* reject issues the delete call and answers 200, whether or not that record
\* is still there and whether or not another one has been written under the
\* id since: two DELETEs of one id that both found the record both answer
\* 200, and a record a PUT writes between the lookup and the delete call is
\* removed.  What a DELETE removes and what it answers depends on the
\* records of its own id only; a step changes no record of another id.
C11_UnprotectedDelete ==
    /\ [](\A p \in 1..MaxConcurrent :
            RunIs(p, "DELETE") =>
                /\ running[p].found \subseteq ItemOf(RaceItems, RunId(p))
                /\ running[p].removed \subseteq ItemOf(RaceItems, RunId(p))
                /\ AnswersFromItsLookup(p)
                /\ (running[p].found # {} /\ running[p].env.faults = {}) =>
                        /\ StatusOf(RunOutcome(p)) = 200
                        /\ RunOutcome(p).calls = <<Call("get", RunId(p)),
                                                   Call("delete", RunId(p))>>)
    /\ [][\A p \in 1..MaxConcurrent : StepOf(p)]_vars

\* Two DELETEs of one id have both found the same record and both answered
\* 200 after a delete call; the first removed that record, the second a
\* record that a PUT wrote after the first one's delete call.
C11_Witness ==
    \E p, q, w \in 1..MaxConcurrent :
        /\ p # q
        /\ RunIs(p, "DELETE") /\ RunIs(q, "DELETE") /\ RunIs(w, "PUT")
        /\ RunId(p) = RunId(q) /\ RunId(w) = RunId(p)
        /\ running[p].found # {}
        /\ running[q].found = running[p].found
        /\ StatusOf(RunOutcome(p)) = 200 /\ StatusOf(RunOutcome(q)) = 200
        /\ RunOutcome(q).calls = <<Call("get", RunId(q)), Call("delete", RunId(q))>>
        /\ StatusOf(RunOutcome(w)) = 201
        /\ running[p].removed = running[p].found
        /\ running[q].removed # {}
        /\ running[q].removed # running[q].found
        /\ ItemOf(table, RunId(p)) = {}

====
